---- MODULE Spec2Model ----
(***************************************************************************)
(* The ledger server of server.ts: an Express application over one SQLite  *)
(* database (better-sqlite3, synchronous).  Every route handler runs to    *)
(* completion before the next request is looked at, and every statement    *)
(* it issues is committed on its own: no handler opens a transaction.      *)
(*                                                                         *)
(* The three tables are sets of rows.  Free-text columns that no handler   *)
(* reads (category, description, name and deadline of a target,            *)
(* avatar_url, created_at of a user or a transaction) are left out.        *)
(* created_at of a target is the clock second of its INSERT                *)
(* (CURRENT_TIMESTAMP has a resolution of one second).  Amounts are whole  *)
(* numbers, on which the REAL arithmetic of SQLite is exact.  A date is    *)
(* the number yyyymmdd, which orders as the text 'yyyy-mm-dd' does when    *)
(* SQLite compares two text values.  The FOREIGN KEY clauses of the        *)
(* schema are enforced (better-sqlite3 opens a connection with             *)
(* foreign_keys on).                                                       *)
(*                                                                         *)
(* Spec is the ledger with every write handler; SpecAuth, SpecStats,       *)
(* SpecLink, SpecList, SpecListTargets, SpecIds and SpecStatus are the     *)
(* same handlers over the inputs one group of properties is about;         *)
(* SpecValid feeds them amounts and types outside the valid ones;          *)
(* SpecFault lets a statement of POST /api/transactions throw; SpecConc    *)
(* runs that handler one statement at a time.                              *)
(***************************************************************************)
EXTENDS Integers, Sequences, FiniteSets, TLC

\* ---- bounds of the model ------------------------------------------------
MaxUsers == 2
MaxTargets == 2
MaxTx == 2
MaxRequests == 2

\* ---- input domains ------------------------------------------------------
Missing == "<missing>"
Emails == {"a@x.id", "b@x.id"}
Names == {"dika"}
Passwords == {"pw"}
AuthEmails == Emails \cup {"c@x.id"}
AuthPasswords == Passwords \cup {"pw2"}
Amounts == {1, 2}
TargetAmounts == {2}
Types == {"income", "expense"}
\* the last day of January and the first two days of February 2024
Dates == {20240131, 20240201, 20240202}
Today == CHOOSE d \in Dates : \A e \in Dates : d <= e
UserIds == 1..MaxUsers
TargetIds == 1..MaxTargets
TxIds == 1..MaxTx
\* clock seconds since the server started
Seconds == {0, 1}
Boot == CHOOSE n \in Seconds : \A m \in Seconds : n <= m
Faults == {"none", "insert", "update"}

\* target_id INTEGER without NOT NULL: NULL is written 0, which is no rowid
\* (AUTOINCREMENT starts at 1) and is falsy in `type === 'income' && targetId`.
NULL == 0

VARIABLES
    users,          \* rows of table users
    targets,        \* rows of table targets
    transactions,   \* rows of table transactions
    seq,            \* sqlite_sequence: the largest rowid each table has handed out
    resp,           \* the response to the last request
    hist,           \* history: what the last request was, for the requests the properties name
    inflight        \* requests whose handler has started and not yet finished

vars == <<users, targets, transactions, seq, resp, hist, inflight>>

\* ---- helpers ------------------------------------------------------------
RECURSIVE SumAmount(_)
SumAmount(rows) ==
    IF rows = {} THEN 0
    ELSE LET r == CHOOSE x \in rows : TRUE
         IN  r.amount + SumAmount(rows \ {r})

\* SELECT SUM(amount) as total ...: NULL over no rows
SqlSum(rows) == [isNull |-> rows = {}, total |-> SumAmount(rows)]

\* `.total || 0`
OrZero(r) == IF r.isNull \/ r.total = 0 THEN 0 ELSE r.total

Ids(rows) == {r.id : r \in rows}
Row(rows, id) == CHOOSE r \in rows : r.id = id

Response(status, kind, val) == [status |-> status, kind |-> kind, val |-> val]
\* hist.op is "register" with arg <<email>>, "login" with arg <<email, password>>,
\* "linked" (a linked income was stored and
\* added to its target) with arg <<id, target_id, saved_amount before>>, "stats" with
\* arg <<userId, now>>, "list_transactions" and "list_targets" with arg <<userId>>,
\* and "other" for every other request.
Hist(op, arg) == [op |-> op, arg |-> arg]
Other == Hist("other", <<>>)

Init ==
    /\ users = {}
    /\ targets = {}
    /\ transactions = {}
    /\ seq = [users |-> 0, targets |-> 0, transactions |-> 0]
    /\ resp = Response(0, "none", 0)
    /\ hist = Other
    /\ inflight = {}

\* ---- POST /api/auth/register ---------------------------------------------
\* email TEXT NOT NULL, without UNIQUE
UsersInsertOkNoUnique(name, email, password) ==
    name # Missing /\ email # Missing /\ password # Missing

\* name, email, password NOT NULL; email UNIQUE
UsersInsertOk(name, email, password) ==
    /\ name # Missing /\ email # Missing /\ password # Missing
    /\ \A u \in users : u.email # email

PostAuthRegister(name, email, password) ==
    /\ UsersInsertOk(name, email, password) => seq.users < MaxUsers
    /\ IF UsersInsertOk(name, email, password)
       THEN LET id == seq.users + 1
            IN  /\ users' = users \cup {[id |-> id, name |-> name, email |-> email,
                                         password |-> password]}
                /\ seq' = [seq EXCEPT !.users = id]
                /\ resp' = Response(200, "user", [id |-> id, name |-> name, email |-> email])
       ELSE /\ resp' = Response(400, "error", "Email already exists")
            /\ UNCHANGED <<users, seq>>
    /\ hist' = Hist("register", <<email>>)
    /\ UNCHANGED <<targets, transactions, inflight>>

\* ---- POST /api/auth/login -------------------------------------------------
\* WHERE email = ?, the password forgotten
CredentialedByEmail(email, password) == {u \in users : u.email = email}

\* SELECT * FROM users WHERE email = ? AND password = ?, .get(): the first row
Credentialed(email, password) ==
    {u \in users : u.email = email /\ u.password = password}

PostAuthLogin(email, password) ==
    /\ resp' = IF Credentialed(email, password) # {}
               THEN Response(200, "row",
                             CHOOSE u \in Credentialed(email, password) :
                                 \A v \in Credentialed(email, password) : u.id <= v.id)
               ELSE Response(401, "error", "Invalid credentials")
    /\ hist' = Hist("login", <<email, password>>)
    /\ UNCHANGED <<users, targets, transactions, seq, inflight>>

\* ---- GET /api/transactions ------------------------------------------------
\* the WHERE forgotten
WhereAnyUser(rows, userId) == rows
\* WHERE user_id = ?
WhereUserId(rows, userId) == {r \in rows : r.user_id = userId}

\* the sequences that hold every row of a set once
Orderings(rows) ==
    {o \in [1..Cardinality(rows) -> rows] : \A r \in rows : \E i \in DOMAIN o : o[i] = r}

\* every order in which SELECT ... ORDER BY date DESC may return the rows
OrderByDateDesc(rows) ==
    {o \in Orderings(rows) : \A i, j \in 1..Len(o) : i < j => o[i].date >= o[j].date}

GetTransactions(userId) ==
    /\ \E o \in OrderByDateDesc(WhereUserId(transactions, userId)) :
          resp' = Response(200, "rows", o)
    /\ hist' = Hist("list_transactions", <<userId>>)
    /\ UNCHANGED <<users, targets, transactions, seq, inflight>>

\* ---- POST /api/targets ----------------------------------------------------
TargetsInsertOk(userId, amount) == userId \in Ids(users)

PostTargets(userId, amount, now) ==
    /\ TargetsInsertOk(userId, amount) => seq.targets < MaxTargets
    /\ \A t \in targets : t.created_at <= now
    /\ IF TargetsInsertOk(userId, amount)
       THEN LET id == seq.targets + 1
            IN  /\ targets' = targets \cup {[id |-> id, user_id |-> userId, amount |-> amount,
                                             saved_amount |-> 0, status |-> "active",
                                             created_at |-> now]}
                /\ seq' = [seq EXCEPT !.targets = id]
                /\ resp' = Response(200, "id", id)
       ELSE /\ resp' = Response(500, "error", "Internal Server Error")
            /\ UNCHANGED <<targets, seq>>
    /\ hist' = Other
    /\ UNCHANGED <<users, transactions, inflight>>

\* ---- GET /api/targets -----------------------------------------------------
\* every order in which SELECT ... ORDER BY created_at DESC may return the
\* rows: rows of equal created_at come in an order SQL leaves open
OrderByCreatedAtDesc(rows) ==
    {o \in Orderings(rows) :
        \A i, j \in 1..Len(o) : i < j => o[i].created_at >= o[j].created_at}

GetTargets(userId) ==
    /\ \E o \in OrderByCreatedAtDesc(WhereUserId(targets, userId)) :
          resp' = Response(200, "rows", o)
    /\ hist' = Hist("list_targets", <<userId>>)
    /\ UNCHANGED <<users, targets, transactions, seq, inflight>>

\* ---- POST /api/transactions ----------------------------------------------
\* INSERT INTO transactions ...: the CHECK on type and the two foreign keys
TransactionsInsertOk(userId, type, targetId) ==
    /\ userId \in Ids(users)
    /\ type \in {"income", "expense"}
    /\ targetId = NULL \/ targetId \in Ids(targets)

\* UPDATE targets SET saved_amount = saved_amount + ?, the WHERE forgotten
AddSavedEveryTarget(rows, amount, targetId) ==
    {[t EXCEPT !.saved_amount = t.saved_amount + amount] : t \in rows}

\* the same UPDATE also setting status = 'completed' once the target amount is saved
AddSavedAndComplete(rows, amount, targetId) ==
    {IF t.id = targetId
     THEN [t EXCEPT !.saved_amount = t.saved_amount + amount,
                    !.status = IF t.saved_amount + amount >= t.amount
                               THEN "completed" ELSE t.status]
     ELSE t : t \in rows}

\* UPDATE targets SET saved_amount = saved_amount + ? WHERE id = ?
AddSaved(rows, amount, targetId) ==
    {IF t.id = targetId THEN [t EXCEPT !.saved_amount = t.saved_amount + amount] ELSE t
        : t \in rows}

\* id INTEGER PRIMARY KEY, AUTOINCREMENT forgotten: one more than the largest id
\* the table holds now
RowidOfMax(rows, last) ==
    IF rows = {} THEN 1 ELSE (CHOOSE i \in Ids(rows) : \A j \in Ids(rows) : j <= i) + 1

\* id INTEGER PRIMARY KEY AUTOINCREMENT: one more than the largest id the table
\* ever held, which sqlite_sequence keeps
Rowid(rows, last) == last + 1

\* `fault` names the statement the environment makes throw (a locked or full
\* database), "none" when both run.
PostTransactions(userId, type, amount, date, targetId, fault) ==
    LET ok == fault # "insert" /\ TransactionsInsertOk(userId, type, targetId)
        id == Rowid(transactions, seq.transactions)
        link == type = "income" /\ targetId # NULL
    IN  /\ ok => seq.transactions < MaxTx
        /\ IF ok
           THEN /\ transactions' = transactions \cup
                       {[id |-> id, user_id |-> userId, type |-> type, amount |-> amount,
                         date |-> date, target_id |-> targetId]}
                /\ seq' = [seq EXCEPT !.transactions = id]
                /\ IF link /\ fault = "update"
                   THEN /\ UNCHANGED targets
                        /\ resp' = Response(500, "error", "Internal Server Error")
                        /\ hist' = Other
                   ELSE /\ targets' = IF link THEN AddSaved(targets, amount, targetId)
                                       ELSE targets
                        /\ resp' = Response(200, "id", id)
                        /\ hist' = IF link
                                   THEN Hist("linked", <<id, targetId,
                                                         Row(targets, targetId).saved_amount>>)
                                   ELSE Other
           ELSE /\ resp' = Response(500, "error", "Internal Server Error")
                /\ hist' = Other
                /\ UNCHANGED <<targets, transactions, seq>>
        /\ UNCHANGED <<users, inflight>>

\* ---- DELETE /api/transactions/:id ----------------------------------------
DeleteTransactionsId(id) ==
    /\ transactions' = {t \in transactions : t.id # id}
    /\ resp' = Response(200, "success", TRUE)
    /\ hist' = Other
    /\ UNCHANGED <<users, targets, seq, inflight>>

\* ---- PATCH /api/targets/:id ----------------------------------------------
\* A body field is <<>> when the body does not carry it, <<v>> when it does.
SetSaved(rows, id, saved_amount) ==
    {IF t.id = id THEN [t EXCEPT !.saved_amount = saved_amount[1]] ELSE t : t \in rows}

SetStatus(rows, id, status) ==
    {IF t.id = id THEN [t EXCEPT !.status = status[1]] ELSE t : t \in rows}

PatchTargetsId(id, saved_amount, status) ==
    LET t1 == IF saved_amount # <<>> THEN SetSaved(targets, id, saved_amount) ELSE targets
        t2 == IF status # <<>> THEN SetStatus(t1, id, status) ELSE t1
    IN  /\ targets' = t2
        /\ resp' = Response(200, "success", TRUE)
        /\ hist' = Other
        /\ UNCHANGED <<users, transactions, seq, inflight>>

\* ---- GET /api/stats -------------------------------------------------------
\* Date.getFullYear(), Date.getMonth() (January is 0) of the server's clock
GetFullYear(now) == now \div 10000
GetMonth(now) == ((now \div 100) % 100) - 1

\* the month taken as getMonth() is, counted from 0
monthStartZeroBased(now) == GetFullYear(now) * 10000 + GetMonth(now) * 100 + 1

\* `${now.getFullYear()}-${String(now.getMonth() + 1).padStart(2, '0')}-01`
monthStart(now) == GetFullYear(now) * 10000 + (GetMonth(now) + 1) * 100 + 1

\* WHERE type = ?, the user_id forgotten
OfTypeAnyUser(userId, type) == {t \in transactions : t.type = type}

OfType(userId, type) == {t \in transactions : t.user_id = userId /\ t.type = type}
OfTypeSince(userId, type, since) == {t \in OfType(userId, type) : t.date >= since}

Stats(userId, now) ==
    LET totalIncome == OrZero(SqlSum(OfType(userId, "income")))
        totalExpense == OrZero(SqlSum(OfType(userId, "expense")))
        monthlyIncome == OrZero(SqlSum(OfTypeSince(userId, "income", monthStart(now))))
        monthlyExpense == OrZero(SqlSum(OfTypeSince(userId, "expense", monthStart(now))))
    IN  [balance |-> totalIncome - totalExpense,
         monthlyIncome |-> monthlyIncome,
         monthlyExpense |-> monthlyExpense,
         totalIncome |-> totalIncome,
         totalExpense |-> totalExpense]

GetStats(userId, now) ==
    /\ resp' = Response(200, "stats", Stats(userId, now))
    /\ hist' = Hist("stats", <<userId, now>>)
    /\ UNCHANGED <<users, targets, transactions, seq, inflight>>

\* ---- POST /api/transactions, one statement at a time ----------------------
\* The same handler seen from the database: each db.prepare(...).run(...) is one
\* step, and the statements of several requests (several server processes on the
\* one database file) may follow each other in any order.  A request is
\* [rid, userId, type, amount, targetId, pc, id]; pc is "insert" before the
\* INSERT, "update" between the INSERT and the UPDATE, "done" once answered with
\* the new id, "failed" when the INSERT threw; id is info.lastInsertRowid.
Request(rid, userId, type, amount, targetId, pc) ==
    [rid |-> rid, userId |-> userId, type |-> type, amount |-> amount,
     targetId |-> targetId, pc |-> pc, id |-> NULL]

Linking(r) == r.type = "income" /\ r.targetId # NULL

AcceptPostTransactions(userId, type, amount, targetId) ==
    /\ Cardinality(inflight) < MaxRequests
    /\ inflight' = inflight \cup
           {Request(Cardinality(inflight) + 1, userId, type, amount, targetId, "insert")}
    /\ UNCHANGED <<users, targets, transactions, seq, resp, hist>>

StmtInsert(r) ==
    /\ r \in inflight /\ r.pc = "insert"
    /\ IF TransactionsInsertOk(r.userId, r.type, r.targetId)
       THEN /\ seq.transactions < MaxTx
            /\ transactions' = transactions \cup
                   {[id |-> seq.transactions + 1, user_id |-> r.userId, type |-> r.type,
                     amount |-> r.amount, date |-> Today, target_id |-> r.targetId]}
            /\ seq' = [seq EXCEPT !.transactions = seq.transactions + 1]
            /\ inflight' = (inflight \ {r}) \cup
                   {[r EXCEPT !.pc = IF Linking(r) THEN "update" ELSE "done",
                              !.id = seq.transactions + 1]}
       ELSE /\ inflight' = (inflight \ {r}) \cup {[r EXCEPT !.pc = "failed"]}
            /\ UNCHANGED <<transactions, seq>>
    /\ UNCHANGED <<users, targets, resp, hist>>

\* UPDATE targets SET saved_amount = ? WHERE id = ?: the amount overwrites the sum
StmtUpdateOverwrite(r) ==
    /\ r \in inflight /\ r.pc = "update"
    /\ targets' = {IF t.id = r.targetId THEN [t EXCEPT !.saved_amount = r.amount] ELSE t
                       : t \in targets}
    /\ inflight' = (inflight \ {r}) \cup {[r EXCEPT !.pc = "done"]}
    /\ UNCHANGED <<users, transactions, seq, resp, hist>>

StmtUpdate(r) ==
    /\ r \in inflight /\ r.pc = "update"
    /\ targets' = AddSaved(targets, r.amount, r.targetId)
    /\ inflight' = (inflight \ {r}) \cup {[r EXCEPT !.pc = "done"]}
    /\ UNCHANGED <<users, transactions, seq, resp, hist>>

\* ---- the ledger: every request handled to completion, one date -----------
SavedInputs == {<<>>, <<0>>}
StatusInputs == {<<>>, <<"completed">>}

Next ==
    \/ \E n \in Names \cup {Missing}, e \in Emails, p \in Passwords : PostAuthRegister(n, e, p)
    \/ \E u \in UserIds, am \in TargetAmounts : PostTargets(u, am, Boot)
    \/ \E u \in UserIds, ty \in Types, a \in Amounts, tg \in TargetIds \cup {NULL} :
          PostTransactions(u, ty, a, Today, tg, "none")
    \/ \E i \in TxIds : DeleteTransactionsId(i)
    \/ \E i \in TargetIds, s \in SavedInputs, st \in StatusInputs : PatchTargetsId(i, s, st)

Spec == Init /\ [][Next]_vars

\* ---- registration and login alone -----------------------------------------
NextAuth ==
    \/ \E n \in Names \cup {Missing}, e \in AuthEmails, p \in AuthPasswords :
          PostAuthRegister(n, e, p)
    \/ \E e \in AuthEmails, p \in AuthPasswords : PostAuthLogin(e, p)

SpecAuth == Init /\ [][NextAuth]_vars

\* ---- the statistics: transactions of any date, asked at any date ---------
NextStats ==
    \/ \E e \in Emails : PostAuthRegister("dika", e, "pw")
    \/ \E u \in UserIds, ty \in Types, a \in Amounts, d \in Dates :
          PostTransactions(u, ty, a, d, NULL, "none")
    \/ \E i \in TxIds : DeleteTransactionsId(i)
    \/ \E u \in UserIds, now \in Dates : GetStats(u, now)

SpecStats == Init /\ [][NextStats]_vars

\* ---- registered users create targets and add incomes, none deleted or patched
NextLink ==
    \/ \E e \in Emails : PostAuthRegister("dika", e, "pw")
    \/ \E u \in Ids(users), am \in TargetAmounts : PostTargets(u, am, Boot)
    \/ \E u \in Ids(users), a \in Amounts, tg \in TargetIds \cup {NULL} :
          PostTransactions(u, "income", a, Today, tg, "none")

SpecLink == Init /\ [][NextLink]_vars

\* ---- the two listings -----------------------------------------------------
NextList ==
    \/ \E e \in Emails : PostAuthRegister("dika", e, "pw")
    \/ \E u \in UserIds, d \in Dates : PostTransactions(u, "expense", 1, d, NULL, "none")
    \/ \E u \in UserIds : GetTransactions(u)

SpecList == Init /\ [][NextList]_vars

NextListTargets ==
    \/ \E e \in Emails : PostAuthRegister("dika", e, "pw")
    \/ \E u \in UserIds, am \in TargetAmounts, n \in Seconds : PostTargets(u, am, n)
    \/ \E u \in UserIds : GetTargets(u)

SpecListTargets == Init /\ [][NextListTargets]_vars

\* ---- transactions created and deleted ---------------------------------------
NextIds ==
    \/ \E e \in Emails : PostAuthRegister("dika", e, "pw")
    \/ \E u \in Ids(users), ty \in Types, a \in Amounts :
          PostTransactions(u, ty, a, Today, NULL, "none")
    \/ \E i \in TxIds : DeleteTransactionsId(i)

SpecIds == Init /\ [][NextIds]_vars

\* ---- one user's targets: incomes added and deleted, status patched ----------
AnyStatusInputs == StatusInputs \cup {<<"active">>}

NextStatus ==
    \/ PostAuthRegister("dika", "a@x.id", "pw")
    \/ \E u \in Ids(users), am \in TargetAmounts : PostTargets(u, am, Boot)
    \/ \E u \in Ids(users), a \in Amounts, tg \in TargetIds :
          PostTransactions(u, "income", a, Today, tg, "none")
    \/ \E i \in TxIds : DeleteTransactionsId(i)
    \/ \E i \in TargetIds, st \in AnyStatusInputs : PatchTargetsId(i, <<>>, st)

SpecStatus == Init /\ [][NextStatus]_vars

\* ---- the ledger over inputs section 4.4 of the design calls malformed ------
AnyAmounts == {-1, 0, 1}
AnyTypes == Types \cup {"transfer"}
AnySavedInputs == SavedInputs \cup {<<-1>>}

NextValid ==
    \/ PostAuthRegister("dika", "a@x.id", "pw")
    \/ \E u \in UserIds, am \in TargetAmounts : PostTargets(u, am, Boot)
    \/ \E u \in UserIds, ty \in AnyTypes, a \in AnyAmounts, tg \in TargetIds \cup {NULL} :
          PostTransactions(u, ty, a, Today, tg, "none")
    \/ \E i \in TxIds : DeleteTransactionsId(i)
    \/ \E i \in TargetIds, s \in AnySavedInputs : PatchTargetsId(i, s, <<>>)

SpecValid == Init /\ [][NextValid]_vars

\* ---- the ledger when a statement of POST /api/transactions may throw ------
NextFault ==
    \/ \E e \in Emails : PostAuthRegister("dika", e, "pw")
    \/ \E u \in UserIds, am \in TargetAmounts : PostTargets(u, am, Boot)
    \/ \E u \in UserIds, ty \in Types, a \in Amounts, tg \in TargetIds \cup {NULL}, f \in Faults :
          PostTransactions(u, ty, a, Today, tg, f)

SpecFault == Init /\ [][NextFault]_vars

\* ---- POST /api/transactions requests whose statements interleave ----------
NextConc ==
    \/ PostAuthRegister("dika", "a@x.id", "pw")
    \/ \E u \in Ids(users), am \in TargetAmounts : PostTargets(u, am, Boot)
    \/ \E u \in Ids(users), ty \in Types, a \in Amounts, tg \in TargetIds \cup {NULL} :
          AcceptPostTransactions(u, ty, a, tg)
    \/ \E r \in inflight : StmtInsert(r)
    \/ \E r \in inflight : StmtUpdate(r)

SpecConc == Init /\ [][NextConc]_vars

\* ==== properties ============================================================
LinkedIncome(targetId) ==
    {t \in transactions : t.type = "income" /\ t.target_id = targetId}

SavedIsLinkedSum ==
    \A T \in targets : T.saved_amount = SumAmount(LinkedIncome(T.id))

IsCreateTransaction ==
    \E u \in UserIds, ty \in Types, a \in Amounts, tg \in TargetIds \cup {NULL} :
        PostTransactions(u, ty, a, Today, tg, "none")

IsDeleteTransaction == \E i \in TxIds : DeleteTransactionsId(i)

\* C1: a create_transaction or delete_transaction that starts where every target's
\* saved_amount is the sum of the income transactions stored with its id ends
\* where it is so again (from a new target, saved 0 and nothing linked, that is
\* the claim's "after every operation of any sequence").
C1_SavedAmountIsLinkedIncomeSum ==
    [][(IsCreateTransaction \/ IsDeleteTransaction) /\ SavedIsLinkedSum
          => SavedIsLinkedSum']_vars

\* C2: deleting the linked income transaction that the request before created
\* leaves its target's saved_amount at the value it had before that create.
C2_DeleteRestoresSavedAmount ==
    [][\A i \in TxIds :
          (hist.op = "linked" /\ hist.arg[1] = i /\ DeleteTransactionsId(i))
             => Row(targets', hist.arg[2]).saved_amount = hist.arg[3]]_vars

\* C3: create_transaction of an income for a stored target of the same user adds
\* the amount to that target's saved_amount and changes no other target (nor any
\* other column of that one).
C3_LinkedIncomeAddsAmount ==
    [][\A u \in UserIds, a \in Amounts, tg \in TargetIds :
          (/\ tg \in Ids(targets)
           /\ Row(targets, tg).user_id = u
           /\ PostTransactions(u, "income", a, Today, tg, "none"))
             => /\ Ids(targets') = Ids(targets)
                /\ \A T \in targets :
                      Row(targets', T.id) =
                         [T EXCEPT !.saved_amount = IF T.id = tg THEN @ + a ELSE @]]_vars

\* a linked income of the target's owner was just added, and another target with
\* savings of its own stands beside it
C3_Witness ==
    /\ hist.op = "linked"
    /\ \E t \in transactions, T \in targets, O \in targets :
          /\ t.id = hist.arg[1] /\ T.id = hist.arg[2] /\ O.id # T.id
          /\ t.user_id = T.user_id
          /\ T.saved_amount = hist.arg[3] + t.amount
          /\ O.saved_amount > 0

OwnedOfType(userId, type) ==
    {t \in transactions : t.user_id = userId /\ t.type = type}

\* C4: the balance get_stats answers for an owner is the sum of the owner's income
\* amounts minus the sum of the owner's expense amounts, 0 when there is none.
C4_BalanceIsIncomeMinusExpense ==
    hist.op = "stats" =>
        resp.val.balance = SumAmount(OwnedOfType(hist.arg[1], "income"))
                           - SumAmount(OwnedOfType(hist.arg[1], "expense"))

\* statistics of an owner whose expense is larger than the income
C4_Witness ==
    /\ hist.op = "stats"
    /\ resp.val.totalIncome > 0 /\ resp.val.totalExpense > 0
    /\ resp.val.balance < 0
    /\ \A t \in transactions : t.user_id = hist.arg[1]

\* d is a day of the calendar month of `now` or of a later month
InMonthOrLater(d, now) == d \div 100 >= now \div 100

\* C5: monthly_income and monthly_expense are the sums over exactly the owner's
\* transactions dated on or after the first day of the month of the query.
C5_MonthlyCountsFromMonthStart ==
    hist.op = "stats" =>
        LET u == hist.arg[1]
            now == hist.arg[2]
        IN  /\ resp.val.monthlyIncome =
                  SumAmount({t \in OwnedOfType(u, "income") : InMonthOrLater(t.date, now)})
            /\ resp.val.monthlyExpense =
                  SumAmount({t \in OwnedOfType(u, "expense") : InMonthOrLater(t.date, now)})

\* asked in the middle of a month, with one transaction of the owner dated before
\* the month (left out) and one dated on its first day (counted)
C5_Witness ==
    /\ hist.op = "stats"
    /\ hist.arg[2] % 100 # 1
    /\ \E t1 \in transactions, t2 \in transactions :
          /\ t1.user_id = hist.arg[1] /\ t2.user_id = hist.arg[1]
          /\ t1.type = t2.type
          /\ ~InMonthOrLater(t1.date, hist.arg[2])
          /\ InMonthOrLater(t2.date, hist.arg[2]) /\ t2.date % 100 = 1
          /\ resp.val.monthlyIncome + resp.val.monthlyExpense = t2.amount

InWindow(d, now) == InMonthOrLater(d, now) /\ d <= now

\* C6: monthly_income and monthly_expense are the sums over the owner's
\* transactions dated from the first day of the month through the day of the
\* query; a transaction dated after that day is not counted.
C6_MonthlyWindowEndsNow ==
    hist.op = "stats" =>
        LET u == hist.arg[1]
            now == hist.arg[2]
        IN  /\ resp.val.monthlyIncome =
                  SumAmount({t \in OwnedOfType(u, "income") : InWindow(t.date, now)})
            /\ resp.val.monthlyExpense =
                  SumAmount({t \in OwnedOfType(u, "expense") : InWindow(t.date, now)})

UniqueEmails == \A u \in users, v \in users : u.email = v.email => u = v

\* C7: register with the email of a stored user answers "Email already exists"
\* (status 400), adds no row and leaves every stored user as it was; no two
\* stored users ever have the same email.
C7_DuplicateEmailRejected ==
    [][/\ \A n \in Names \cup {Missing}, e \in AuthEmails, p \in AuthPasswords :
             ((\E u \in users : u.email = e) /\ PostAuthRegister(n, e, p))
                => /\ resp'.status = 400
                   /\ resp'.kind = "error"
                   /\ resp'.val = "Email already exists"
                   /\ users' = users
       /\ UniqueEmails']_vars

\* a register with the email of the first of two stored users, refused
C7_Witness ==
    /\ hist.op = "register"
    /\ resp.status = 400
    /\ \E u \in users : u.email = hist.arg[1] /\ u.id = 1
    /\ Cardinality(users) = 2

\* C8: every create_transaction of an income for a stored target, whichever
\* statement fails, stores the row and adds the amount, or does neither.
C8_CreateIsAtomic ==
    [][\A u \in UserIds, a \in Amounts, tg \in TargetIds, f \in Faults :
          (tg \in Ids(targets) /\ PostTransactions(u, "income", a, Today, tg, f))
             => \/ /\ transactions' # transactions
                   /\ Row(targets', tg).saved_amount = Row(targets, tg).saved_amount + a
                \/ /\ transactions' = transactions
                   /\ targets' = targets]_vars

DoneLinking(targetId) ==
    {r \in inflight : r.pc = "done" /\ Linking(r) /\ r.targetId = targetId}

\* C9: however the statements of the create_transaction requests interleave, a
\* target's saved_amount is the sum of the amounts of the linked incomes whose
\* UPDATE has run: once both of two requests are done, it has grown by both.
C9_NoLostIncrement ==
    \A T \in targets : T.saved_amount = SumAmount(DoneLinking(T.id))

\* two incomes for one target: the first to insert is still before its UPDATE
\* while the second, inserted after it, is done
C9_Witness ==
    \E r1 \in inflight, r2 \in inflight :
        /\ r1.id # NULL /\ r1.id < r2.id
        /\ Linking(r1) /\ Linking(r2) /\ r1.targetId = r2.targetId
        /\ r1.pc = "update" /\ r2.pc = "done"
        /\ r1.amount # r2.amount

\* C10: update_target with an id no stored target has answers NotFound (404) and
\* leaves every target as it was.
C10_UpdateAbsentTargetNotFound ==
    [][\A i \in TargetIds, s \in SavedInputs, st \in StatusInputs :
          (i \notin Ids(targets) /\ PatchTargetsId(i, s, st))
             => /\ resp'.status = 404
                /\ targets' = targets]_vars

\* C11: delete_transaction with an id no stored transaction has answers NotFound
\* (404) and leaves transactions and targets as they were; with a stored id it
\* answers success and no transaction with that id is stored afterwards.
C11_DeleteAbsentNotFound ==
    [][\A i \in TxIds :
          DeleteTransactionsId(i)
             => IF i \in Ids(transactions)
                THEN /\ resp'.status = 200
                     /\ i \notin Ids(transactions')
                ELSE /\ resp'.status = 404
                     /\ transactions' = transactions
                     /\ targets' = targets]_vars

\* who sends a request: a registered user, or nobody the server knows (NULL).
\* No handler reads it: no request carries a session or a credential.
Callers == Ids(users) \cup {NULL}

\* C12: a delete_transaction or update_target sent by a user who does not own the
\* transaction or target it names leaves that entity as it was (the request is
\* refused).
C12_ForeignEntityUntouched ==
    [][\A caller \in Callers :
          /\ \A i \in TxIds :
                (/\ i \in Ids(transactions)
                 /\ Row(transactions, i).user_id # caller
                 /\ DeleteTransactionsId(i))
                   => Row(transactions, i) \in transactions'
          /\ \A i \in TargetIds, s \in SavedInputs, st \in StatusInputs :
                (/\ i \in Ids(targets)
                 /\ Row(targets, i).user_id # caller
                 /\ PatchTargetsId(i, s, st))
                   => Row(targets, i) \in targets']_vars

\* C14: login answers a user exactly when a stored user has that email and that
\* password, and then that user's row; in every other case it answers
\* "Invalid credentials" (401); it changes no table.
C14_LoginIffCredentialsMatch ==
    [][\A e \in AuthEmails, p \in AuthPasswords :
          PostAuthLogin(e, p)
             => /\ UNCHANGED <<users, targets, transactions, seq>>
                /\ IF \E u \in users : u.email = e /\ u.password = p
                   THEN /\ resp'.status = 200
                        /\ resp'.val \in users
                        /\ resp'.val.email = e /\ resp'.val.password = p
                   ELSE /\ resp'.status = 401
                        /\ resp'.val = "Invalid credentials"]_vars

\* the second of two users with different passwords has logged in
C14_Witness ==
    /\ hist.op = "login"
    /\ resp.status = 200
    /\ resp.val.id = 2
    /\ \E u \in users : u.id = 1 /\ u.password # resp.val.password

\* C17: every stored transaction with a target_id names a stored target whose
\* owner is the owner of the transaction.
C17_LinkNamesOwnTarget ==
    \A t \in transactions :
        t.target_id # NULL
           => \E T \in targets : T.id = t.target_id /\ T.user_id = t.user_id

\* C13: create_transaction with an amount that is not greater than 0, or with a
\* type that is neither income nor expense, fails and changes no table: no row
\* is stored and no saved_amount changes.
C13_MalformedCreateRejected ==
    [][\A u \in UserIds, ty \in AnyTypes, a \in AnyAmounts, tg \in TargetIds \cup {NULL} :
          ((a <= 0 \/ ty \notin {"income", "expense"})
              /\ PostTransactions(u, ty, a, Today, tg, "none"))
             => /\ resp'.status >= 400
                /\ transactions' = transactions
                /\ targets' = targets]_vars

\* C18: every target's saved_amount is greater than or equal to 0.
C18_SavedAmountNotNegative ==
    \A T \in targets : T.saved_amount >= 0

IsPatchOfStatus(id) ==
    \E s \in SavedInputs, st \in AnyStatusInputs \ {<<>>} : PatchTargetsId(id, s, st)

\* C19: a target is created with status active, and its status changes only in
\* an update_target that names it and carries a status; create_transaction and
\* delete_transaction leave every status as it was, whatever saved_amount
\* becomes.
C19_StatusOnlyByUpdateTarget ==
    [][/\ \A T \in targets' :
             IF T.id \in Ids(targets)
             THEN T.status # Row(targets, T.id).status => IsPatchOfStatus(T.id)
             ELSE T.status = "active"
       /\ \A u \in UserIds, a \in Amounts, tg \in TargetIds :
             PostTransactions(u, "income", a, Today, tg, "none")
                => \A T \in targets : Row(targets', T.id).status = T.status
       /\ \A i \in TxIds :
             DeleteTransactionsId(i)
                => \A T \in targets : Row(targets', T.id).status = T.status]_vars

\* a linked income has just brought an active target past its target amount
C19_Witness ==
    /\ hist.op = "linked"
    /\ \E T \in targets :
          /\ T.id = hist.arg[2]
          /\ hist.arg[3] < T.amount
          /\ T.saved_amount > T.amount
          /\ T.status = "active"

\* C15: list_transactions(owner_id) answers the stored transactions of
\* owner_id, each once and no row of another user, a later date never after an
\* earlier one, and leaves the store as it was.
C15_ListIsOwnersRowsByDateDesc ==
    /\ [](hist.op = "list_transactions"
            => /\ resp.status = 200
               /\ {resp.val[i] : i \in DOMAIN resp.val}
                     = {t \in transactions : t.user_id = hist.arg[1]}
               /\ Len(resp.val) = Cardinality({t \in transactions : t.user_id = hist.arg[1]})
               /\ \A i, j \in DOMAIN resp.val : i < j => resp.val[i].date >= resp.val[j].date)
    /\ [][\A u \in UserIds : GetTransactions(u)
                                => UNCHANGED <<users, targets, transactions, seq>>]_vars

\* a listing of two rows, the one stored first carrying the later date
C15_Witness ==
    /\ hist.op = "list_transactions"
    /\ Len(resp.val) = 2
    /\ resp.val[1].date > resp.val[2].date
    /\ resp.val[1].id < resp.val[2].id
    /\ Cardinality(users) = 2

\* C16: list_targets(owner_id) answers the owner's targets with the one created
\* later before the one created earlier, also for two targets created in the
\* same clock second.
C16_LaterCreatedTargetFirst ==
    hist.op = "list_targets"
       => \A i, j \in DOMAIN resp.val : i < j => resp.val[i].id > resp.val[j].id

\* C20: a ledger operation for owner U is performed only for a caller who has
\* authenticated as U: a listing of U's stored transactions asked for by any
\* other caller, or by one who has not authenticated at all, is refused.
C20_LedgerGatedByAuthentication ==
    [][\A caller \in Callers, u \in UserIds :
          (/\ caller # u
           /\ WhereUserId(transactions, u) # {}
           /\ GetTransactions(u)) => resp'.status \in {401, 403}]_vars

\* C21: register answers "Email already exists" only when a stored user has the
\* given email; a register that fails for another cause (a missing name, say)
\* answers a different error.
C21_DuplicateEmailOnlyForStoredEmail ==
    (/\ hist.op = "register"
     /\ resp.kind = "error"
     /\ resp.val = "Email already exists") => \E u \in users : u.email = hist.arg[1]

\* what get_stats, list_transactions and list_targets of a user are computed from
Ledger(userId) ==
    <<WhereUserId(transactions, userId), WhereUserId(targets, userId),
      [now \in Dates |-> Stats(userId, now)]>>

\* C22: a create_transaction or create_target made with owner V changes nothing
\* that get_stats, list_transactions or list_targets of another user U answer.
C22_ReadsOfOtherUserUnchanged ==
    [][\A U \in UserIds : \A V \in UserIds \ {U} :
          /\ \A ty \in Types, a \in Amounts, d \in Dates, tg \in TargetIds \cup {NULL} :
                PostTransactions(V, ty, a, d, tg, "none") => Ledger(U)' = Ledger(U)
          /\ \A am \in TargetAmounts :
                PostTargets(V, am, Boot) => Ledger(U)' = Ledger(U)]_vars

\* C23: every create_transaction stores its row under an id above every id a
\* create returned before (seq.transactions is the largest of them), deleted
\* ones included; a delete_transaction removes no row of another id, so one
\* issued with an id deleted before removes nothing.
C23_TransactionIdsNeverReused ==
    /\ [](Ids(transactions) \subseteq 1..seq.transactions)
    /\ [][/\ seq'.transactions >= seq.transactions
          /\ \A t \in transactions' \ transactions :
                /\ t.id > seq.transactions
                /\ t.id = seq'.transactions
                /\ resp'.status = 200 /\ resp'.val = t.id
          /\ \A i \in TxIds :
                DeleteTransactionsId(i)
                   => /\ {t \in transactions : t.id # i} \subseteq transactions'
                      /\ (i \notin Ids(transactions) => transactions' = transactions)]_vars

\* a create just answered id 2 after the row of id 1 was deleted
C23_Witness ==
    /\ resp.kind = "id"
    /\ resp.val = 2
    /\ Ids(transactions) = {2}

====
